---- MODULE Spec2Model ----
(***************************************************************************)
(* Model of lib/uploader.js: the per-file handler (fileHandler) and the    *)
(* batch dispatcher (module.exports).                                      *)
(*                                                                         *)
(* Strings are sequences of one-character strings, so that concatenation,  *)
(* the glob pattern `${name}*.${ext}` and the regular expression           *)
(* /\-(\d+)\.\w+$/ are computed on characters as the code computes them.   *)
(* The destination directory is the set of paths of the files it holds.    *)
(* Every await of the code is one step of the model; the code between two  *)
(* awaits runs inside the step that resumes it.                            *)
(***************************************************************************)
EXTENDS Integers, Sequences, FiniteSets

VARIABLES
    fs,         \* paths of the files that exist in options.dest
    destMade,   \* TRUE once mkdirp.sync(options.dest) has run
    options,    \* the caller's options object (options.names is rewritten by line 152)
    options0,   \* the options object as the caller built it
    files,      \* the files of the current call, as a list (lines 147-149)
    cpc,        \* state of the promise of the current call
    cerr,       \* the error the current call rejected with
    cresult,    \* the value the current call resolved with
    h,          \* the fileHandler invocations of the current call, by index
    fs0,        \* fs when the current call started
    first,      \* index of the handler whose promise settled first, 0 while none has
    firstFailed,\* index of the handler whose promise was rejected first, 0 while none was
    ncalls,     \* number of process calls made
    uncaught,   \* an error was thrown out of the 'error' listener (lines 43-46) in the current call
    streak      \* consecutive successful one-file calls with one name and format since Init

vars == <<fs, destMade, options, options0, files, cpc, cerr, cresult, h, fs0, first, firstFailed, ncalls, uncaught, streak>>

-----------------------------------------------------------------------------
(* Bounds of the model *)

MaxCalls == 3

MaxInputs == 3

-----------------------------------------------------------------------------
(* Strings *)

Digits == <<"0", "1", "2", "3", "4", "5", "6", "7", "8", "9">>

IsDigit(c) == \E i \in 1..10 : Digits[i] = c

DigitValue(c) == (CHOOSE i \in 1..10 : Digits[i] = c) - 1

\* \w of a JavaScript regular expression: [A-Za-z0-9_]
IsWordChar(c) ==
    \/ IsDigit(c)
    \/ c \in {"a", "b", "c", "d", "e", "f", "g", "h", "i", "j", "k", "l", "m",
              "n", "o", "p", "q", "r", "s", "t", "u", "v", "w", "x", "y", "z",
              "A", "B", "C", "D", "E", "F", "G", "H", "I", "J", "K", "L", "M",
              "N", "O", "P", "Q", "R", "S", "T", "U", "V", "W", "X", "Y", "Z", "_"}

StartsWith(s, p) == Len(s) >= Len(p) /\ SubSeq(s, 1, Len(p)) = p

EndsWith(s, p) == Len(s) >= Len(p) /\ SubSeq(s, Len(s) - Len(p) + 1, Len(s)) = p

\* `${n}` of a non-negative integer: its decimal digits
RECURSIVE NumToStr(_)
NumToStr(n) ==
    IF n < 10 THEN <<Digits[n + 1]>>
    ELSE NumToStr(n \div 10) \o <<Digits[(n % 10) + 1]>>

\* path.join(dir, filename)
Join(dir, filename) == dir \o <<"/">> \o filename

SetMax(S) == CHOOSE m \in S : \A n \in S : n <= m

Min(a, b) == IF a < b THEN a ELSE b

-----------------------------------------------------------------------------
(* Numbers, lines 79-84. A Number that holds a non-negative integer is written
   as its decimal digits, the least significant first and the most significant
   not 0; <<>> is 0. A Number is a double: beyond 2^53 not every integer is one.
   The integers of this model stay below 2^54. An operator takes the value of
   its argument once, as the one element of a set. *)

Zero == <<>>

Trim(n) ==
    CHOOSE r \in { IF \A i \in DOMAIN m : m[i] = 0 THEN Zero
                   ELSE SubSeq(m, 1, SetMax({ i \in DOMAIN m : m[i] # 0 })) : m \in {n} } : TRUE

\* The integer that a string of digits denotes
Exact(s) == Trim([i \in 1..Len(s) |-> DigitValue(s[Len(s) + 1 - i])])

NumLess(a, b) ==
    \/ Len(a) < Len(b)
    \/ /\ Len(a) = Len(b)
       /\ \E k \in DOMAIN a : a[k] < b[k] /\ \A j \in (k + 1)..Len(a) : a[j] = b[j]

NumMax(S) == CHOOSE m \in S : \A n \in S : ~NumLess(m, n)

\* n + 1 and n - 1 of integers (n - 1 of a positive one)
Succ(n) ==
    CHOOSE r \in
        { [i \in 1..(IF k > Len(m) THEN k ELSE Len(m)) |->
              IF i < k THEN 0 ELSE IF i > k THEN m[i] ELSE IF k > Len(m) THEN 1 ELSE m[k] + 1] :
          <<m, k>> \in { <<d, CHOOSE i \in 1..(Len(d) + 1) :
                              /\ i = Len(d) + 1 \/ d[i] # 9
                              /\ \A j \in 1..(i - 1) : d[j] = 9>> : d \in {n} } } : TRUE

Pred(n) ==
    CHOOSE r \in
        { Trim([i \in DOMAIN m |-> IF i < k THEN 9 ELSE IF i > k THEN m[i] ELSE m[k] - 1]) :
          <<m, k>> \in { <<d, CHOOSE i \in DOMAIN d :
                              d[i] # 0 /\ \A j \in 1..(i - 1) : d[j] = 0>> : d \in {n} } } : TRUE

TwoTo53 == Exact(<<"9", "0", "0", "7", "1", "9", "9", "2", "5", "4", "7", "4", "0", "9", "9", "2">>)

\* The double nearest to the integer n, ties to the even significand: up to
\* 2^53 every integer is a double, from there to 2^54 the even ones are, and an
\* odd integer goes to its neighbour that is a multiple of 4
Round(n) ==
    CHOOSE r \in
        { IF ~NumLess(TwoTo53, m) \/ m[1] % 2 = 0 THEN m
          ELSE IF (10 * m[2] + m[1] + 1) % 4 = 0 THEN Succ(m)
          ELSE Pred(m) : m \in {n} } : TRUE

\* +num of a string of digits
ToNumber(s) == Round(Exact(s))

\* Math.max(...numbers) + 1
PlusOne(n) == Round(Succ(n))

\* `${n}` of a Number that holds an integer (below 10^21: plain decimal digits)
NumberToString(n) ==
    CHOOSE r \in
        { IF m = Zero THEN <<"0">> ELSE [i \in 1..Len(m) |-> Digits[m[Len(m) + 1 - i] + 1]] :
          m \in {n} } : TRUE

-----------------------------------------------------------------------------
(* Inputs: the destination, the images and the options the calls are made with *)

DestDir == <<"d">>

Png == <<"p", "n", "g">>

Gif == <<"g", "i", "f">>

\* In place of the format of a stream that the codec cannot decode
Undecodable == <<>>

\* An uploaded file: hapi.filename, and what sharp's metadata() reports for its content
File(filename, format, width, height) ==
    [filename |-> filename, format |-> format, width |-> width, height |-> height]

FileChoices ==
    { File(<<"a", ".", "j">>, Png, 2, 2),
      File(<<"a", "-", "1", ".", "j">>, Png, 2, 3),
      File(<<"a", ".", "j">>, Gif, 2, 2),
      File(<<"a", ".", "j">>, Png, 1, 3),
      File(<<"a", ".", "j">>, Png, 3, 3),
      File(<<"a", ".", "j">>, Gif, 3, 3),
      File(<<"a", "[", "b", "]", ".", "j">>, Png, 2, 2),
      File(<<"a", ".", "j">>, Undecodable, 2, 2) }

\* The files the calls on several files are made of
BatchFileChoices ==
    { File(<<"a", ".", "j">>, Png, 2, 2),
      File(<<"a", ".", "j">>, Gif, 2, 2),
      File(<<"a", ".", "j">>, Png, 3, 3) }

\* A Version of options.versions; suffix <<>> is an absent (or empty) suffix
Version(width, height, enlargement, suffix) ==
    [width |-> width, height |-> height, enlargement |-> enlargement, suffix |-> suffix]

VersionsChoices ==
    { <<>>,
      << Version(1, 1, FALSE, <<"-", "t">>) >>,
      << Version(1, 1, FALSE, <<"-", "t">>), Version(2, 1, FALSE, <<"-", "t">>) >>,
      << Version(2, 2, FALSE, <<>>), Version(3, 3, FALSE, <<>>) >> }

\* A value of options.names or of one of its entries: undefined, or a string
Undefined == [def |-> FALSE, s |-> <<>>]

Str(s) == [def |-> TRUE, s |-> s]

\* options.names: undefined, one string, or a list of strings
NamesChoices ==
    { [kind |-> "undefined", v |-> <<>>],
      [kind |-> "string", v |-> <<Str(<<"a">>)>>],
      [kind |-> "list", v |-> <<Str(<<"b">>)>>],
      [kind |-> "list", v |-> <<Str(<<"b">>), Str(<<"a">>)>>],
      [kind |-> "list", v |-> <<Str(<<"b">>), Str(<<"a">>), Str(<<"c">>)>>],
      [kind |-> "list", v |-> <<Str(<<"a", "[", "b", "]">>), Str(<<"a", "b">>)>>] }

Options(names, safeName, maxFiles, versions, addOriginal) ==
    [dest |-> DestDir, names |-> names, safeName |-> safeName, formats |-> {Png},
     maxFiles |-> maxFiles, minPixels |-> 4, maxPixels |-> 6,
     versions |-> versions, addOriginal |-> addOriginal]

OptionChoices ==
    { Options([kind |-> "undefined", v |-> <<>>], sn, 2, vs, ao) :
        sn \in BOOLEAN, vs \in VersionsChoices, ao \in BOOLEAN }
    \cup { Options(ns, TRUE, 2, <<>>, FALSE) : ns \in NamesChoices }
    \cup { Options([kind |-> "undefined", v |-> <<>>], TRUE, mf, <<>>, FALSE) : mf \in {1, MaxInputs} }

InitialDests ==
    { {},
      { Join(DestDir, <<"a", "-", "9", ".", "p", "n", "g">>) },
      { Join(DestDir, <<"a", "-">> \o NumberToString(TwoTo53) \o <<".", "p", "n", "g">>) } }

-----------------------------------------------------------------------------
(* Naming resolution, lines 69-86 *)

\* Index of the "]" that closes the bracket expression opening at pat[1], 0 if none
\* (the class holds at least one character)
ClassEnd(pat) ==
    LET ends == { c \in 3..Len(pat) : pat[c] = "]" }
    IN  IF ends = {} THEN 0 ELSE CHOOSE c \in ends : \A e \in ends : c <= e

\* Glob matching of the string s against the pattern pat: "*" is any run of
\* characters other than "/", "?" is one such character, "[...]" is one
\* character of the class, any other character is itself. (Ranges, negated
\* classes and braces do not occur in the patterns of the model.)
RECURSIVE GlobMatch(_, _)
GlobMatch(pat, s) ==
    IF pat = <<>> THEN s = <<>>
    ELSE IF pat[1] = "*"
    THEN \E k \in 0..Len(s) :
            /\ \A n \in 1..k : s[n] # "/"
            /\ GlobMatch(Tail(pat), SubSeq(s, k + 1, Len(s)))
    ELSE IF s = <<>> THEN FALSE
    ELSE IF pat[1] = "?"
    THEN s[1] # "/" /\ GlobMatch(Tail(pat), Tail(s))
    ELSE IF pat[1] = "[" /\ ClassEnd(pat) # 0
    THEN /\ \E c \in 2..(ClassEnd(pat) - 1) : pat[c] = s[1]
         /\ GlobMatch(SubSeq(pat, ClassEnd(pat) + 1, Len(pat)), Tail(s))
    ELSE s[1] = pat[1] /\ GlobMatch(Tail(pat), Tail(s))

\* line 70: the pattern join(dest, `${name}*.${ext}`)
GlobPattern(dest, name, ext) == Join(dest, name \o <<"*", ".">> \o ext)

\* globby(join(dest, `${name}*.${ext}`)) on the directory content dir
Globby(dir, dest, name, ext) == { p \in dir : GlobMatch(GlobPattern(dest, name, ext), p) }

\* Index of the last "." of path, 0 if it has none
LastDot(path) == SetMax({ i \in 1..Len(path) : path[i] = "." } \cup {0})

\* Index at which the run of digits that ends just before index `dot` starts
\* (`dot` itself when there is no digit there)
DigitsStart(path, dot) ==
    IF dot = 0 THEN 0
    ELSE CHOOSE i \in 1..dot :
            /\ \A k \in i..(dot - 1) : IsDigit(path[k])
            /\ (i = 1 \/ ~IsDigit(path[i - 1]))

\* /\-(\d+)\.\w+$/.exec(path): the digits captured, or <<>> when there is no match
\* (the capture group is never empty when there is a match). \w+$ admits no ".",
\* so that \. is the last "." of path.
RegexDigits(path) ==
    CHOOSE digits \in
        { IF /\ dot > 0
             /\ dot < Len(path)
             /\ \A k \in (dot + 1)..Len(path) : IsWordChar(path[k])
             /\ start < dot
             /\ start > 1
             /\ path[start - 1] = "-"
          THEN SubSeq(path, start, dot - 1)
          ELSE <<>> :
          dot \in {LastDot(path)}, start \in {DigitsStart(path, LastDot(path))} } : TRUE

\* match && match[1], then +num: +null is 0, so an entry without a suffix counts as 0
PathNumber(path) ==
    CHOOSE number \in
        { IF digits = <<>> THEN Zero ELSE ToNumber(digits) : digits \in {RegexDigits(path)} } : TRUE

\* Discriminator, had the test of numbers.length been left out
Discriminator_Unconditional(paths) ==
    LET numbers == { PathNumber(p) : p \in paths }
    IN  <<"-">> \o NumberToString(PlusOne(NumMax(numbers \cup {Zero})))

\* Discriminator, had the entries without a numeric suffix been left out of numbers
Discriminator_SuffixedOnly(paths) ==
    LET numbers == { PathNumber(p) : p \in { q \in paths : RegexDigits(q) # <<>> } }
    IN  IF numbers # {}
        THEN <<"-">> \o NumberToString(PlusOne(NumMax(numbers \cup {Zero})))
        ELSE <<>>

\* lines 72-85: the discriminator computed from the listing `paths`
Discriminator(paths) ==
    LET numbers == { PathNumber(p) : p \in paths }
    IN  IF paths # {}
        THEN <<"-">> \o NumberToString(PlusOne(NumMax(numbers \cup {Zero})))
        ELSE <<>>

-----------------------------------------------------------------------------
(* The file names of one handler, lines 51-60 and 97-115 *)

\* parse(filename).name: the file name without its last extension
ParseName(filename) ==
    LET dots == { i \in 2..Len(filename) : filename[i] = "." }
    IN  IF dots = {} THEN filename ELSE SubSeq(filename, 1, SetMax(dots) - 1)

\* NameAt, had every file been given the first entry
NameAt_First(names, index) == names.v[1]

\* options.names[index] of the normalised list; past its end it is undefined
NameAt(names, index) == IF index <= Len(names.v) THEN names.v[index] ELSE Undefined

\* name = parse(file.hapi.filename).name applies when options.name is undefined
EffectiveName(file, nameOpt) == IF nameOpt.def THEN nameOpt.s ELSE ParseName(file.filename)

\* info of toBuffer after resize(width, height).withoutEnlargement(!enlargement)
ResizeInfo(file, v) ==
    IF v.enlargement
    THEN [width |-> v.width, height |-> v.height]
    ELSE [width |-> Min(v.width, file.width), height |-> Min(v.height, file.height)]

Details(dest, filename) == [filename |-> filename, path |-> Join(dest, filename)]

\* line 104
VersionFilename(name, v, info, discriminator, ext) ==
    LET tag == IF v.suffix # <<>> THEN v.suffix
               ELSE <<"-">> \o NumToStr(info.width) \o <<"x">> \o NumToStr(info.height)
    IN  name \o tag \o discriminator \o <<".">> \o ext

\* line 114
OriginalFilename(name, discriminator, ext) == name \o discriminator \o <<".">> \o ext

\* FormatAllowed, had the check of the format been left out
FormatAllowed_Unchecked(file, opts) == TRUE

\* line 62
FormatAllowed(file, opts) == file.format \in opts.formats

\* PixelsOutOfRange, had the bounds been exclusive
PixelsOutOfRange_Exclusive(file, opts) ==
    LET pixels == file.width * file.height
    IN  pixels <= opts.minPixels \/ pixels >= opts.maxPixels

\* lines 88-90
PixelsOutOfRange(file, opts) ==
    LET pixels == file.width * file.height
    IN  pixels < opts.minPixels \/ pixels > opts.maxPixels

\* OverLimit, had the comparison been >=
OverLimit_Inclusive(fl, opts) == Len(fl) >= opts.maxFiles

\* line 155
OverLimit(fl, opts) == Len(fl) > opts.maxFiles

\* HasOriginal, had the original copy been made on addOriginal only
HasOriginal_OnRequestOnly(opts) == opts.addOriginal

\* line 113
HasOriginal(opts) == Len(opts.versions) = 0 \/ opts.addOriginal

-----------------------------------------------------------------------------
(* Promises *)

NoDetails == [filename |-> <<>>, path |-> <<>>]

\* DetailsList, had the promise of the original copy been pushed to the end
DetailsList_OriginalLast(opts, hd) ==
    hd.vdet \o (IF HasOriginal(opts) THEN <<hd.odet>> ELSE <<>>)

\* lines 94-120: the list `promises` once settled, the original copy unshifted in front
DetailsList(opts, hd) ==
    (IF HasOriginal(opts) THEN <<hd.odet>> ELSE <<>>) \o hd.vdet

\* line 124: details.length > 1 ? details : details[0]
HandlerResult(details) ==
    IF Len(details) > 1 THEN [kind |-> "list", v |-> details]
    ELSE IF Len(details) = 1 THEN [kind |-> "one", v |-> details]
    ELSE [kind |-> "undefined", v |-> <<>>]

\* CallResult, had the list been returned for one file too
CallResult_AlwaysList(fl, uploads) == [kind |-> "list", v |-> uploads]

\* line 167: files.length > 1 ? uploads : uploads[0]
CallResult(fl, uploads) ==
    IF Len(fl) > 1 THEN [kind |-> "list", v |-> uploads]
    ELSE IF Len(uploads) >= 1 THEN [kind |-> "one", v |-> <<uploads[1]>>]
    ELSE [kind |-> "undefined", v |-> <<>>]

NoResult == [kind |-> "none", v |-> <<>>]

\* lines 147-149: a bare stream is wrapped into a list
NormaliseFiles(input) == input.v

\* lines 151-153: options.names = [options.names] unless it is a list already
NormaliseNames(names) ==
    IF names.kind = "list" THEN names
    ELSE IF names.kind = "string" THEN [kind |-> "list", v |-> names.v]
    ELSE [kind |-> "list", v |-> <<Undefined>>]

\* MkdirpSync, had dest been taken to exist
MkdirpSync_Skipped(made) == made

\* line 159: mkdirp.sync(options.dest) returns once dest exists
MkdirpSync(made) == TRUE

Quiescent == \A i \in DOMAIN h : h[i].pc \in {"resolved", "rejected"}

\* lines 36-49: a handler runs up to `await pipeline.metadata()`
StartHandler(file, nameOpt) ==
    [pc |-> "metadata", name |-> EffectiveName(file, nameOpt), ext |-> file.format,
     listed |-> FALSE, paths |-> {}, discriminator |-> <<>>,
     vpc |-> <<>>, vdet |-> <<>>, opc |-> "none", odet |-> NoDetails, err |-> ""]

\* Finished, had the promise of the original copy been left out of promises
Finished_VersionsOnly(hd) ==
    IF /\ hd.pc = "writing"
       /\ \A k \in DOMAIN hd.vpc : hd.vpc[k] = "done"
    THEN [hd EXCEPT !.pc = "resolved"]
    ELSE hd

\* line 122: Promise.all(promises) resolves with the last of them
Finished(hd) ==
    IF /\ hd.pc = "writing"
       /\ \A k \in DOMAIN hd.vpc : hd.vpc[k] = "done"
       /\ hd.opc \in {"none", "done"}
    THEN [hd EXCEPT !.pc = "resolved"]
    ELSE hd

\* lines 88-122: the pixel check, then every version and the original copy are started
AfterNaming(hd, file, opts, paths, discriminator) ==
    LET named == [hd EXCEPT !.paths = paths, !.discriminator = discriminator]
    IN  IF PixelsOutOfRange(file, opts)
        THEN [named EXCEPT !.pc = "rejected", !.err = "pixels"]
        ELSE Finished([named EXCEPT
                !.pc = "writing",
                !.vpc = [k \in 1..Len(opts.versions) |-> "toBuffer"],
                !.vdet = [k \in 1..Len(opts.versions) |-> NoDetails],
                !.opc = IF HasOriginal(opts) THEN "toFile" ELSE "none",
                !.odet = IF HasOriginal(opts)
                         THEN Details(opts.dest, OriginalFilename(hd.name, discriminator, hd.ext))
                         ELSE NoDetails])

\* SettleCall, had every rejection of a handler set the error of the call
SettleCall_LastError(i, to) ==
    \E hd \in {to} :
        LET hs == [h EXCEPT ![i] = hd]
            single == Len(files) = 1
        IN  /\ h' = hs
            /\ first' = IF first = 0 /\ hd.pc \in {"resolved", "rejected"} THEN i ELSE first
            /\ firstFailed' = IF firstFailed = 0 /\ hd.pc = "rejected" THEN i ELSE firstFailed
            /\ IF cpc \in {"running", "rejected"} /\ hd.pc = "rejected"
               THEN cpc' = "rejected" /\ cerr' = hd.err /\ cresult' = cresult
               ELSE IF cpc = "running" /\ \A j \in DOMAIN hs : hs[j].pc = "resolved"
               THEN /\ cpc' = "resolved"
                    /\ cerr' = cerr
                    /\ cresult' = CallResult(files,
                           [j \in DOMAIN hs |-> HandlerResult(DetailsList(options, hs[j]))])
               ELSE UNCHANGED <<cpc, cerr, cresult>>
            /\ streak' =
                 IF hd.pc = "resolved" /\ single /\ streak.ok
                    /\ (streak.n = 0 \/ (streak.name = hd.name /\ streak.ext = hd.ext))
                 THEN [ok |-> TRUE, n |-> streak.n + 1, name |-> hd.name, ext |-> hd.ext]
                 ELSE IF hd.pc \in {"resolved", "rejected"}
                 THEN [streak EXCEPT !.ok = FALSE]
                 ELSE streak

\* lines 161-167: Promise.all over the handlers, seen from the step in which
\* handler i moves to `to`
SettleCall(i, to) ==
    \E hd \in {to} :
        LET hs == [h EXCEPT ![i] = hd]
            single == Len(files) = 1
        IN  /\ h' = hs
            /\ first' = IF first = 0 /\ hd.pc \in {"resolved", "rejected"} THEN i ELSE first
            /\ firstFailed' = IF firstFailed = 0 /\ hd.pc = "rejected" THEN i ELSE firstFailed
            /\ IF cpc = "running" /\ hd.pc = "rejected"
               THEN cpc' = "rejected" /\ cerr' = hd.err /\ cresult' = cresult
               ELSE IF cpc = "running" /\ \A j \in DOMAIN hs : hs[j].pc = "resolved"
               THEN /\ cpc' = "resolved"
                    /\ cerr' = cerr
                    /\ cresult' = CallResult(files,
                           [j \in DOMAIN hs |-> HandlerResult(DetailsList(options, hs[j]))])
               ELSE UNCHANGED <<cpc, cerr, cresult>>
            /\ streak' =
                 IF hd.pc = "resolved" /\ single /\ streak.ok
                    /\ (streak.n = 0 \/ (streak.name = hd.name /\ streak.ext = hd.ext))
                 THEN [ok |-> TRUE, n |-> streak.n + 1, name |-> hd.name, ext |-> hd.ext]
                 ELSE IF hd.pc \in {"resolved", "rejected"}
                 THEN [streak EXCEPT !.ok = FALSE]
                 ELSE streak

-----------------------------------------------------------------------------
(* The state machine *)

\* What process is called with: one bare stream, a list of one, or a longer list
Inputs ==
    { [kind |-> "stream", v |-> <<f>>] : f \in FileChoices }
    \cup { [kind |-> "list", v |-> <<f>>] : f \in FileChoices }
    \cup { [kind |-> "list", v |-> fl] :
             fl \in UNION { [1..n -> BatchFileChoices] : n \in 2..MaxInputs } }

Init ==
    /\ fs \in InitialDests
    /\ destMade = (fs # {})
    /\ options \in OptionChoices
    /\ options0 = options
    /\ files = <<>>
    /\ cpc = "idle"
    /\ cerr = ""
    /\ cresult = NoResult
    /\ h = <<>>
    /\ fs0 = fs
    /\ first = 0
    /\ firstFailed = 0
    /\ ncalls = 0
    /\ uncaught = FALSE
    /\ streak = [ok |-> fs = {}, n |-> 0, name |-> <<>>, ext |-> <<>>]

\* module.exports, lines 142-165, up to the await of line 161. A call is made
\* once the handlers of the one before have all settled.
Process(input) ==
    LET fl == NormaliseFiles(input)
        opts == [options EXCEPT !.names = NormaliseNames(options.names)]
    IN  /\ cpc # "running"
        /\ Quiescent
        /\ ncalls < MaxCalls
        /\ Len(fl) > 1 => ncalls = 0     \* calls on several files are explored as first calls
        /\ ncalls' = ncalls + 1
        /\ options' = opts
        /\ files' = fl
        /\ fs0' = fs
        /\ first' = 0
        /\ firstFailed' = 0
        /\ cresult' = NoResult
        /\ uncaught' = FALSE
        /\ UNCHANGED <<fs, options0>>
        /\ IF OverLimit(fl, opts)
           THEN /\ cpc' = "rejected"
                /\ cerr' = "limit"
                /\ h' = <<>>
                /\ streak' = [streak EXCEPT !.ok = FALSE]
                /\ UNCHANGED destMade
           ELSE /\ cpc' = "running"
                /\ cerr' = ""
                /\ destMade' = MkdirpSync(destMade)
                /\ h' = [i \in 1..Len(fl) |-> StartHandler(fl[i], NameAt(opts.names, i))]
                /\ streak' = IF Len(fl) > 1 THEN [streak EXCEPT !.ok = FALSE] ELSE streak

\* fileHandler, lines 49-70 (and on to line 122 when safeName is off)
Metadata(i) ==
    /\ i \in DOMAIN h
    /\ h[i].pc = "metadata"
    /\ files[i].format # Undecodable
    /\ LET hd == h[i]
           file == files[i]
       IN  IF ~FormatAllowed(file, options)
           THEN SettleCall(i, [hd EXCEPT !.pc = "rejected", !.err = "format"])
           ELSE IF options.safeName
           THEN SettleCall(i, [hd EXCEPT !.pc = "globby"])
           ELSE SettleCall(i, AfterNaming(hd, file, options, {}, <<>>))
    /\ UNCHANGED <<fs, destMade, options, options0, files, fs0, ncalls, uncaught>>

\* fileHandler, line 49: the codec cannot decode the stream and metadata() rejects
MetadataFail(i) ==
    /\ i \in DOMAIN h
    /\ h[i].pc = "metadata"
    /\ files[i].format = Undecodable
    /\ SettleCall(i, [h[i] EXCEPT !.pc = "rejected", !.err = "decode"])
    /\ UNCHANGED <<fs, destMade, options, options0, files, fs0, ncalls, uncaught>>

\* fileHandler, lines 43-46: the codec cannot decode the stream and the pipeline
\* emits 'error'; the listener throws in the emitter's call, outside of the
\* handler's promise, which stays as it is
ErrorEvent(i) ==
    /\ i \in DOMAIN h
    /\ h[i].pc = "metadata"
    /\ files[i].format = Undecodable
    /\ ~uncaught
    /\ uncaught' = TRUE
    /\ UNCHANGED <<fs, destMade, options, options0, files, cpc, cerr, cresult, h, fs0,
                   first, firstFailed, ncalls, streak>>

\* fileHandler, lines 70-122: the listing of dest resolves
GlobbyDone(i) ==
    /\ i \in DOMAIN h
    /\ h[i].pc = "globby"
    /\ \E paths \in {Globby(fs, options.dest, h[i].name, h[i].ext)} :
         \E discriminator \in {Discriminator(paths)} :
            SettleCall(i, AfterNaming([h[i] EXCEPT !.listed = TRUE], files[i], options,
                                      paths, discriminator))
    /\ UNCHANGED <<fs, destMade, options, options0, files, fs0, ncalls, uncaught>>

\* fileHandler, lines 102-107: toBuffer of version k resolves, toFile starts
ToBuffer(i, k) ==
    /\ i \in DOMAIN h
    /\ h[i].pc = "writing"
    /\ k \in DOMAIN h[i].vpc
    /\ h[i].vpc[k] = "toBuffer"
    /\ LET hd == h[i]
           v == options.versions[k]
           filename == VersionFilename(hd.name, v, ResizeInfo(files[i], v),
                                       hd.discriminator, hd.ext)
       IN  SettleCall(i, [hd EXCEPT !.vpc[k] = "toFile",
                                    !.vdet[k] = Details(options.dest, filename)])
    /\ UNCHANGED <<fs, destMade, options, options0, files, fs0, ncalls, uncaught>>

\* fileHandler, lines 107-109: toFile of version k resolves
ToFile(i, k) ==
    /\ i \in DOMAIN h
    /\ h[i].pc = "writing"
    /\ k \in DOMAIN h[i].vpc
    /\ h[i].vpc[k] = "toFile"
    /\ fs' = fs \cup {h[i].vdet[k].path}
    /\ SettleCall(i, Finished([h[i] EXCEPT !.vpc[k] = "done"]))
    /\ UNCHANGED <<destMade, options, options0, files, fs0, ncalls, uncaught>>

\* fileHandler, lines 117-119: toFile of the original copy resolves
OriginalToFile(i) ==
    /\ i \in DOMAIN h
    /\ h[i].pc = "writing"
    /\ h[i].opc = "toFile"
    /\ fs' = fs \cup {h[i].odet.path}
    /\ SettleCall(i, Finished([h[i] EXCEPT !.opc = "done"]))
    /\ UNCHANGED <<destMade, options, options0, files, fs0, ncalls, uncaught>>

\* The longest options.versions of the model
MaxVersions == SetMax({ Len(vs) : vs \in VersionsChoices })

Next ==
    \/ \E input \in Inputs : Process(input)
    \/ \E i \in 1..MaxInputs : Metadata(i)
    \/ \E i \in 1..MaxInputs : MetadataFail(i)
    \/ \E i \in 1..MaxInputs : ErrorEvent(i)
    \/ \E i \in 1..MaxInputs : GlobbyDone(i)
    \/ \E i \in 1..MaxInputs, k \in 1..MaxVersions : ToBuffer(i, k)
    \/ \E i \in 1..MaxInputs, k \in 1..MaxVersions : ToFile(i, k)
    \/ \E i \in 1..MaxInputs : OriginalToFile(i)

Spec == Init /\ [][Next]_vars

-----------------------------------------------------------------------------
(* Properties *)

\* The paths handler hd has started to write or has written
WrittenPaths(hd) ==
    { hd.vdet[k].path : k \in { n \in DOMAIN hd.vpc : hd.vpc[n] \in {"toFile", "done"} } }
    \cup (IF hd.opc \in {"toFile", "done"} THEN {hd.odet.path} ELSE {})

\* The file name the n-th upload of one name and format is expected to get
NthFilename(name, n, ext) ==
    name \o (IF n = 1 THEN <<>> ELSE <<"-">> \o NumToStr(n - 1)) \o <<".">> \o ext

\* C1: with safeName on and no versions, the n-th of a series of one-file calls
\* with one base name and one format into an empty dest returns the file name
\* name.ext for n = 1 and name-(n-1).ext for n >= 2.
C1_SequentialNames ==
    (/\ cpc = "resolved"
     /\ streak.ok
     /\ options.safeName
     /\ options.versions = <<>>)
    => cresult = [kind |-> "one", v |->
                    << [kind |-> "one", v |->
                          << Details(DestDir, NthFilename(streak.name, streak.n, streak.ext)) >>] >>]

\* C2: with safeName on, a one-file call never writes to a path that existed in
\* dest when the call started, whatever the names, the versions and addOriginal.
C2_NoOverwrite ==
    (options.safeName /\ Len(files) = 1)
    => \A i \in DOMAIN h : WrittenPaths(h[i]) \cap fs0 = {}

\* C3: with safeName on, two files of one batch with the same base name and
\* format that both list dest before either writes compute the same
\* discriminator (none when nothing in dest matched) and write to the same
\* paths: both results name the same files, each of which is written twice.
C3_NamingCollision ==
    \A i, j \in DOMAIN h :
        (/\ i < j
         /\ options.safeName
         /\ h[i].name = h[j].name
         /\ h[i].ext = h[j].ext
         /\ h[i].pc = "resolved"
         /\ h[j].pc = "resolved"
         /\ h[i].paths \cap WrittenPaths(h[j]) = {}
         /\ h[j].paths \cap WrittenPaths(h[i]) = {}
         /\ h[i].paths = h[j].paths)
        => /\ h[i].discriminator = h[j].discriminator
           /\ h[i].paths = {} => h[i].discriminator = <<>>
           /\ WrittenPaths(h[i]) = WrittenPaths(h[j])
           /\ DetailsList(options, h[i]) = DetailsList(options, h[j])
           /\ cpc = "resolved" => /\ Len(cresult.v) = Len(files)
                                  /\ cresult.v[i] = cresult.v[j]

C3_Witness ==
    /\ options.safeName
    /\ cpc = "resolved"
    /\ Len(files) = 2
    /\ h[1].name = h[2].name
    /\ h[1].ext = h[2].ext
    /\ h[1].paths = {}
    /\ h[2].paths = {}
    /\ cresult.v[1] = cresult.v[2]
    /\ fs = WrittenPaths(h[1])
    /\ fs = WrittenPaths(h[2])

BadFormat(i) == files[i].format # Undecodable /\ files[i].format \notin options.formats

\* C4 as stated: a call containing an image whose format is not in
\* options.formats rejects with the format error and writes no file.
C4_Original ==
    (\E i \in DOMAIN h : BadFormat(i))
    => /\ fs = fs0
       /\ cpc # "resolved"
       /\ cpc = "rejected" => cerr = "format"

\* C4, amended: a call containing an image whose format is not in
\* options.formats never resolves; the handler of that image writes no file and
\* fails with the format error, on which the call is rejected, with the format
\* error when that handler is the first to fail; a call on that one file
\* writes nothing to dest.
C4_FormatRejected ==
    \A i \in DOMAIN h :
        BadFormat(i)
        => /\ cpc # "resolved"
           /\ h[i].pc \in {"metadata", "rejected"}
           /\ WrittenPaths(h[i]) = {}
           /\ h[i].pc = "rejected" => (h[i].err = "format" /\ cpc = "rejected")
           /\ firstFailed = i => cerr = "format"
           /\ Len(files) = 1 => fs = fs0

C4_Witness ==
    /\ Len(files) = 2
    /\ DOMAIN h = {1, 2}
    /\ BadFormat(1)
    /\ h[1].pc = "rejected"
    /\ firstFailed = 1
    /\ cerr = "format"
    /\ h[2].pc = "resolved"
    /\ fs # fs0

PixelCount(i) == files[i].width * files[i].height

C6_LimitBeforeHandlers ==
    ncalls > 0
    => IF Len(files) > options.maxFiles
       THEN cpc = "rejected" /\ cerr = "limit" /\ h = <<>> /\ fs = fs0
       ELSE cerr # "limit" /\ DOMAIN h = 1..Len(files)

C6_Witness ==
    /\ Len(files) = 3
    /\ options.maxFiles = 2
    /\ cpc = "rejected"
    /\ cerr = "limit"
    /\ h = <<>>

\* The name handler i works under, from the inputs of the call
InputName(i) == EffectiveName(files[i], NameAt(options.names, i))

\* C7: a call on N > 1 files resolves with a list of N results, the i-th being
\* the result of the i-th file (its file names are made of that file's name and
\* format) whatever order the handlers settle in; a call on one file, bare or
\* in a list, resolves with that file's result unwrapped.
C7_ResultShape ==
    cpc = "resolved"
    => /\ Len(cresult.v) = Len(files)
       /\ cresult.kind = IF Len(files) > 1 THEN "list" ELSE "one"
       /\ \A i \in 1..Len(files) :
            /\ cresult.v[i] = HandlerResult(DetailsList(options, h[i]))
            /\ \A n \in 1..Len(cresult.v[i].v) :
                 /\ StartsWith(cresult.v[i].v[n].filename, InputName(i))
                 /\ EndsWith(cresult.v[i].v[n].filename, <<".">> \o files[i].format)

C7_Witness ==
    /\ cpc = "resolved"
    /\ Len(files) = 2
    /\ first = 2
    /\ InputName(1) = <<"b">>
    /\ InputName(2) = <<"a">>
    /\ cresult.kind = "list"
    /\ cresult.v[1].v[1].filename = <<"b", ".", "p", "n", "g">>
    /\ cresult.v[2].v[1].filename = <<"a", ".", "p", "n", "g">>

\* Number of descriptors in the value a handler resolved with
DescriptorCount(hd) == Len(HandlerResult(DetailsList(options, hd)).v)

\* C8 as stated: a handler that succeeds produces K descriptors for K versions
\* when addOriginal is false and K + 1 when it is true, for every K >= 0.
C8_Original ==
    \A i \in DOMAIN h :
        h[i].pc = "resolved"
        => DescriptorCount(h[i]) =
             Len(options.versions) + (IF options.addOriginal THEN 1 ELSE 0)

\* C8, amended: a handler that succeeds produces K descriptors for K >= 1
\* versions when addOriginal is false and K + 1 when it is true; with no
\* version it produces exactly one descriptor, the original copy, whether
\* addOriginal is true or false.
C8_DescriptorCount ==
    \A i \in DOMAIN h :
        h[i].pc = "resolved"
        => DescriptorCount(h[i]) =
             IF Len(options.versions) = 0 THEN 1
             ELSE Len(options.versions) + (IF options.addOriginal THEN 1 ELSE 0)

C8_Witness ==
    \E i \in DOMAIN h :
        /\ h[i].pc = "resolved"
        /\ Len(options.versions) = 0
        /\ ~options.addOriginal
        /\ DescriptorCount(h[i]) = 1

\* The steps of handler i
HandlerStep(i) ==
    \/ Metadata(i)
    \/ MetadataFail(i)
    \/ GlobbyDone(i)
    \/ \E k \in 1..MaxVersions : ToBuffer(i, k) \/ ToFile(i, k)
    \/ OriginalToFile(i)

\* The paths handler hd has finished writing
CompletedPaths(hd) ==
    { hd.vdet[k].path : k \in { n \in DOMAIN hd.vpc : hd.vpc[n] = "done" } }
    \cup (IF hd.opc = "done" THEN {hd.odet.path} ELSE {})

\* C9: in a batch the call is rejected as soon as a handler has failed, with
\* the error of the first handler to fail and without a result; the sibling
\* handlers are not cancelled (each unsettled one can still take its next
\* step), and the files they have written stay in dest, as do the files that
\* were there before the call.
C9_FailFast ==
    /\ \A i \in DOMAIN h :
         /\ h[i].pc = "rejected" => (cpc = "rejected" /\ cresult = NoResult)
         /\ (cpc = "rejected" /\ h[i].pc \notin {"resolved", "rejected"})
            => ENABLED HandlerStep(i)
         /\ CompletedPaths(h[i]) \subseteq fs
    /\ firstFailed # 0 => (cpc = "rejected" /\ cerr = h[firstFailed].err)
    /\ fs0 \subseteq fs

\* A sibling that wrote its files and resolved after the call was rejected
C9_Witness ==
    /\ Len(files) = 2
    /\ DOMAIN h = {1, 2}
    /\ cpc = "rejected"
    /\ first = 1
    /\ firstFailed = 1
    /\ h[1].pc = "rejected"
    /\ h[2].pc = "resolved"
    /\ WrittenPaths(h[2]) # {}
    /\ WrittenPaths(h[2]) \subseteq fs
    /\ fs # fs0
    /\ cresult = NoResult

\* C10: a handler that succeeds has written as many distinct files as it
\* returns descriptors: the paths of its descriptors are pairwise distinct.
C10_DistinctPaths ==
    \A i \in DOMAIN h :
        h[i].pc = "resolved"
        => LET details == DetailsList(options, h[i])
           IN  /\ Cardinality({ details[n].path : n \in 1..Len(details) }) = Len(details)
               /\ Cardinality(WrittenPaths(h[i])) = Len(details)

\* C11: process leaves the caller's options object as it was: after any call
\* every field of options, names included, has the value the caller passed in.
C11_OptionsUntouched == options = options0

-----------------------------------------------------------------------------
\* The path ends in "-", digits, ".", word characters: it carries a numeric suffix
HasNumericSuffix(path) ==
    \E dot \in 3..(Len(path) - 1) :
        /\ path[dot] = "."
        /\ \A k \in (dot + 1)..Len(path) : IsWordChar(path[k])
        /\ \E dash \in 1..(dot - 2) :
              /\ path[dash] = "-"
              /\ \A k \in (dash + 1)..(dot - 1) : IsDigit(path[k])

\* C12 as stated: the discriminator is empty whenever none of the entries the
\* listing matched carries a trailing -<digits> suffix, also when there are
\* such entries (dest holds <baseName>.<ext>).
C12_Original ==
    \A i \in DOMAIN h :
        (h[i].listed /\ \A p \in h[i].paths : ~HasNumericSuffix(p))
            => h[i].discriminator = <<>>

\* C12, amended: the discriminator is empty exactly when the listing matched
\* no entry at all; matched entries that carry no numeric suffix count as 0,
\* so that with only such entries the discriminator is "-1".
C12_EmptyIffNoMatch ==
    \A i \in DOMAIN h :
        h[i].listed =>
            /\ (h[i].discriminator = <<>>) <=> (h[i].paths = {})
            /\ (h[i].paths # {} /\ \A p \in h[i].paths : ~HasNumericSuffix(p))
                   => h[i].discriminator = <<"-", "1">>

\* a listing that matched <baseName>.<ext> alone, and the discriminator is "-1"
C12_Witness ==
    \E i \in DOMAIN h :
        /\ h[i].listed
        /\ h[i].paths = {Join(options.dest, OriginalFilename(h[i].name, <<>>, h[i].ext))}
        /\ h[i].discriminator = <<"-", "1">>

-----------------------------------------------------------------------------
\* S of C13: the numeric suffixes of the entries the listing of handler i matched
Suffixes(i) == { Exact(RegexDigits(p)) : p \in { q \in h[i].paths : HasNumericSuffix(q) } }

\* C13: a non-empty discriminator is "-" followed by the decimal numeral of
\* max(S \cup {0}) + 1, S being the numeric suffixes of the matched entries: a
\* positive integer greater than the suffix of every matched entry.
C13_NextNumber ==
    \A i \in DOMAIN h :
        (h[i].listed /\ h[i].discriminator # <<>>) =>
            LET numeral == Tail(h[i].discriminator)
            IN  /\ Head(h[i].discriminator) = "-"
                /\ numeral # <<>>
                /\ \A k \in DOMAIN numeral : IsDigit(numeral[k])
                /\ numeral[1] # "0"
                /\ Exact(numeral) = Succ(NumMax(Suffixes(i) \cup {Zero}))
                /\ \A n \in Suffixes(i) : NumLess(n, Exact(numeral))

-----------------------------------------------------------------------------
\* C14: the format check, the dimension check and the naming resolution run in
\* this order: a handler rejected by the dimension check has listed nothing,
\* also when safeName is set.
C14_DimensionBeforeListing ==
    \A i \in DOMAIN h :
        (h[i].pc = "rejected" /\ h[i].err = "pixels") => ~h[i].listed

-----------------------------------------------------------------------------
\* C15: every failure raised while a file is handled rejects the handler's
\* promise and with it the call: a stream that cannot be decoded leaves its
\* handler pending or rejected, on which the call is rejected with that error,
\* and no error is thrown outside of the returned promise.
C15_FailuresReject ==
    /\ ~uncaught
    /\ \A i \in DOMAIN h :
         files[i].format = Undecodable
         => /\ h[i].pc \in {"metadata", "rejected"}
            /\ h[i].pc = "rejected" => (cpc = "rejected" /\ cerr = h[i].err)

-----------------------------------------------------------------------------
\* The descriptors of a result of a handler, or of every result of a call
ResultDetails(result) == { result.v[n] : n \in DOMAIN result.v }

\* C16: whatever order the writes complete in, when a handler has resolved
\* every file named in its descriptors has been written, and when the call has
\* resolved every file named in a descriptor of its result exists in dest.
C16_WrittenWhenResolved ==
    /\ \A i \in DOMAIN h :
         h[i].pc = "resolved"
         => \A d \in ResultDetails(HandlerResult(DetailsList(options, h[i]))) :
               /\ d.path \in fs
               /\ d.path = Join(options.dest, d.filename)
    /\ cpc = "resolved"
       => \A r \in ResultDetails(cresult) : \A d \in ResultDetails(r) : d.path \in fs

\* a call resolved with an original copy and two versions, three files written
\* by this call
C16_Witness ==
    /\ cpc = "resolved"
    /\ options.addOriginal
    /\ Len(options.versions) = 2
    /\ \A r \in ResultDetails(cresult) :
          /\ Cardinality(ResultDetails(r)) = 3
          /\ \A d \in ResultDetails(r) : d.path \in fs /\ d.path \notin fs0

-----------------------------------------------------------------------------
\* C17: in a call that passes the checks of its arguments and of the number of
\* files, dest has been created before a handler is started, hence before any
\* listing and any write.
C17_DestBeforeHandlers ==
    /\ h # <<>> => destMade
    /\ \A i \in DOMAIN h : (h[i].listed \/ WrittenPaths(h[i]) # {}) => destMade
    /\ fs # fs0 => destMade

\* the first call, into a dest that did not exist: dest is there when the
\* handler awaits the metadata
C17_Witness ==
    /\ ncalls = 1
    /\ fs0 = {}
    /\ cpc = "running"
    /\ DOMAIN h = {1}
    /\ h[1].pc = "metadata"
    /\ destMade

-----------------------------------------------------------------------------
\* The name the caller requested for file i: the i-th entry of a list, the one
\* string for the first file, none otherwise
Requested(i) ==
    IF options0.names.kind \in {"list", "string"} /\ i <= Len(options0.names.v)
    THEN options0.names.v[i]
    ELSE Undefined

\* C18 as stated: in a call that starts its handlers the normalised names list
\* is at least as long as the list of files, so that every file is paired with
\* a requested name.
C18_Original ==
    (ncalls > 0 /\ h # <<>>)
    => /\ options.names.kind = "list"
       /\ Len(options.names.v) >= Len(files)
       /\ \A i \in DOMAIN h : options.names.v[i].def

\* C18, amended: after normalisation names is a list (a list is kept as passed,
\* one string or an absent names becomes a list of one entry), which may be
\* shorter than the list of files; file i works under the i-th requested name
\* when there is one and under the base name of its own filename when there is
\* none; entries past the number of files are not used.
C18_NamesPairing ==
    ncalls > 0
    => /\ options.names.kind = "list"
       /\ options0.names.kind = "list" => options.names = options0.names
       /\ options0.names.kind # "list" => Len(options.names.v) = 1
       /\ \A i \in DOMAIN h :
            h[i].name = IF Requested(i).def THEN Requested(i).s
                        ELSE ParseName(files[i].filename)

\* two files and a names list of one entry: the second file keeps its own name
C18_Witness ==
    /\ cpc = "resolved"
    /\ Len(files) = 2
    /\ Len(options.names.v) = 1
    /\ Requested(1).def
    /\ h[1].name = Requested(1).s
    /\ h[2].name = ParseName(files[2].filename)
    /\ h[1].name # h[2].name

-----------------------------------------------------------------------------
\* C19: a handler that succeeds returns its one descriptor unwrapped when it
\* produced exactly one, and otherwise the list of its descriptors: the original
\* copy first (when versions is empty or addOriginal is set), then the versions
\* in the order of options.versions; it never returns an empty list or undefined.
C19_HandlerReturn ==
    \A i \in DOMAIN h :
        h[i].pc = "resolved"
        => LET r == HandlerResult(DetailsList(options, h[i]))
               K == Len(options.versions)
               original == IF K = 0 \/ options.addOriginal THEN 1 ELSE 0
           IN  /\ Len(r.v) = K + original
               /\ Len(r.v) >= 1
               /\ r.kind = IF K + original = 1 THEN "one" ELSE "list"
               /\ original = 1
                  => r.v[1] = Details(options.dest,
                                      h[i].name \o h[i].discriminator \o <<".">> \o h[i].ext)
               /\ \A k \in 1..K :
                    r.v[original + k] =
                        Details(options.dest,
                                VersionFilename(h[i].name, options.versions[k],
                                                ResizeInfo(files[i], options.versions[k]),
                                                h[i].discriminator, h[i].ext))
               /\ Len(files) = 1 /\ cpc = "resolved" => cresult.v[1] = r

\* a list of three: the original copy, then two versions of different sizes
C19_Witness ==
    \E i \in DOMAIN h :
        /\ h[i].pc = "resolved"
        /\ options.addOriginal
        /\ LET r == HandlerResult(DetailsList(options, h[i]))
           IN  /\ r.kind = "list"
               /\ Len(r.v) = 3
               /\ r.v[1].filename = h[i].name \o h[i].discriminator \o <<".">> \o h[i].ext
               /\ r.v[2].filename # r.v[3].filename
               /\ r.v[2].filename # r.v[1].filename

-----------------------------------------------------------------------------
\* The files written and the discriminators computed when the first n files of
\* the call are handled one after another, each to its end, from dest as it
\* was when the call started
Sequential[n \in 0..MaxInputs + 1] ==
    IF n = 0 \/ n > Len(files) THEN [fs |-> fs0, discriminators |-> <<>>]
    ELSE LET before == Sequential[n - 1]
             name == InputName(n)
             ext == files[n].format
             discriminator ==
                 IF options.safeName
                 THEN Discriminator(Globby(before.fs, options.dest, name, ext))
                 ELSE <<>>
             written ==
                 { Join(options.dest,
                        VersionFilename(name, options.versions[k],
                                        ResizeInfo(files[n], options.versions[k]),
                                        discriminator, ext)) : k \in DOMAIN options.versions }
                 \cup (IF HasOriginal(options)
                       THEN {Join(options.dest, OriginalFilename(name, discriminator, ext))}
                       ELSE {})
         IN  [fs |-> before.fs \cup written,
              discriminators |-> Append(before.discriminators, discriminator)]

\* C20: in a batch with safeName whose base names are such that none is a
\* prefix of (or equal to) another, the file names each file gets and the files
\* in dest at the end are those of handling the files one after another,
\* whatever the interleaving of the handlers.
C20_SameAsSequential ==
    (/\ cpc = "resolved"
     /\ options.safeName
     /\ Len(files) > 1
     /\ \A i, j \in DOMAIN h : i # j => ~StartsWith(h[j].name, h[i].name))
    => /\ \A i \in DOMAIN h :
            h[i].discriminator = Sequential[Len(files)].discriminators[i]
       /\ fs = Sequential[Len(files)].fs

====
